---- MODULE Spec2Model ----
(***************************************************************************)
(* Model of the project / comment / like / profile routes.                 *)
(*                                                                         *)
(* The document store holds three collections: users, projects, comments.  *)
(* Every route handler is one action; in the sequential specifications a   *)
(* handler runs from its first read to its response without interleaving.  *)
(* SpecConc splits the project like-toggle at its await points             *)
(* (findById, save) so that two requests can interleave.                   *)
(*                                                                         *)
(* req / res hold the last request served and the response sent for it.    *)
(* removed holds the Comment documents the last request removed.           *)
(***************************************************************************)
EXTENDS Integers, Sequences, FiniteSets, TLC

VARIABLES users, projects, comments, nextProject, nextComment,
          inflight, req, res, removed

vars == <<users, projects, comments, nextProject, nextComment,
          inflight, req, res, removed>>

(* ---------------- bounds ---------------- *)
MaxProjects == 2
MaxComments == 3
MaxVersion == 3

(* ---------------- value sets ------------- *)
NULL == 0
Users == {"u1", "u2"}
Names == {"alice", "bob", "carol"}
Bios == {"", "hi"}
Titles == {"t1"}
ProjectIds == 1..MaxProjects
CommentIds == 1..MaxComments

(* ---------------- helpers ---------------- *)
Range(s) == {s[i] : i \in 1..Len(s)}

\* MongooseArray.includes: membership by id
Includes(s, x) == x \in Range(s)

\* likes.filter(id => id !== x)  /  $pull
Without(s, x) == SelectSeq(s, LAMBDA y : y # x)

Restrict(f, S) == [x \in S |-> f[x]]

NoBody == <<>>

Response(status, message) == [status |-> status, message |-> message, body |-> NoBody]

Request(op, u, id, body) == [op |-> op, user |-> u, id |-> id, body |-> body]

Idle == [pc |-> "idle"]

(* ---------------- initial state ---------- *)
Init ==
  /\ users = [u \in Users |-> [username |-> IF u = "u1" THEN "alice" ELSE "bob",
                               bio |-> ""]]
  /\ projects = <<>>
  /\ comments = <<>>
  /\ nextProject = 1
  /\ nextComment = 1
  /\ inflight = [u \in Users |-> Idle]
  /\ req = Request("none", "none", NULL, NoBody)
  /\ res = Response(0, "")
  /\ removed = <<>>

(* ---------------- Project model ---------- *)
\* projectSchema.pre("save")
PreSaveMutantNoRecount(doc) == doc

PreSave(doc) == [doc EXCEPT !.likesCount = Len(doc.likes)]

\* new Project({..., author}) with schema defaults, then save()
NewProject(u, t) ==
  PreSave([title |-> t, author |-> u, likes |-> <<>>,
           likesCount |-> 0, commentsCount |-> 0, v |-> 0])

\* POST /projects
CreateProject(u, t) ==
  /\ nextProject <= MaxProjects
  /\ projects' = (nextProject :> NewProject(u, t)) @@ projects
  /\ nextProject' = nextProject + 1
  /\ req' = Request("createProject", u, nextProject, [title |-> t])
  /\ res' = Response(201, "created")
  /\ removed' = <<>>
  /\ UNCHANGED <<users, comments, nextComment, inflight>>

\* Request bodies of PUT /projects/:id: any subset of the schema's fields
UpdateBodies ==
  {[title |-> "t2"]}
    \cup {[author |-> u] : u \in Users}
    \cup {[likes |-> <<u>>] : u \in Users}
    \cup {[likesCount |-> 1], [commentsCount |-> 1]}
    \cup {[title |-> "t2", likesCount |-> 1, commentsCount |-> 0]}

\* findByIdAndUpdate(id, updateData): $set of every supplied schema path
\* (no save middleware runs)
ApplyUpdate(doc, body) ==
  [f \in DOMAIN doc |-> IF f \in DOMAIN body THEN body[f] ELSE doc[f]]

\* PUT /projects/:id
UpdateProject(u, p, body) ==
  /\ req' = Request("updateProject", u, p, body)
  /\ removed' = <<>>
  /\ IF p \notin DOMAIN projects
       THEN /\ res' = Response(404, "Project not found")
            /\ UNCHANGED projects
       ELSE IF projects[p].author # u
         THEN /\ res' = Response(403, "Not authorized")
              /\ UNCHANGED projects
         ELSE /\ projects' = [projects EXCEPT ![p] = ApplyUpdate(@, body)]
              /\ res' = Response(200, "updated")
  /\ UNCHANGED <<users, comments, nextProject, nextComment, inflight>>

\* Comment.deleteMany({ project: p }) filter
CommentsOfProjectMutantTopLevelOnly(p) ==
  {c \in DOMAIN comments : comments[c].project = p /\ comments[c].parentComment = NULL}

CommentsOfProject(p) == {c \in DOMAIN comments : comments[c].project = p}

\* DELETE /projects/:id
DeleteProject(u, p) ==
  /\ req' = Request("deleteProject", u, p, NoBody)
  /\ IF p \notin DOMAIN projects
       THEN /\ res' = Response(404, "Project not found")
            /\ removed' = <<>>
            /\ UNCHANGED <<projects, comments>>
       ELSE IF projects[p].author # u
         THEN /\ res' = Response(403, "Not authorized")
              /\ removed' = <<>>
              /\ UNCHANGED <<projects, comments>>
         ELSE /\ comments' = Restrict(comments, DOMAIN comments \ CommentsOfProject(p))
              /\ removed' = Restrict(comments, CommentsOfProject(p))
              /\ projects' = Restrict(projects, DOMAIN projects \ {p})
              /\ res' = Response(200, "Project deleted successfully")
  /\ UNCHANGED <<users, nextProject, nextComment, inflight>>

(* ---------------- like toggle ------------ *)
\* The handler's change to the document it loaded, followed by the save hook
Toggled(doc, u) ==
  PreSave([doc EXCEPT !.likes = IF Includes(doc.likes, u)
                                  THEN Without(doc.likes, u)
                                  ELSE Append(doc.likes, u)])

\* project.save() of a document loaded as `loaded`, applied to the document
\* now stored.  push() is sent as an atomic $push on the stored array; an
\* assigned array is sent as a $set of the whole array guarded by the version
\* the document was loaded with; likesCount is sent as a $set of the value the
\* hook computed from the loaded copy, when that differs from the value loaded.
\* A version mismatch rejects the save (VersionError): ok is FALSE.
SaveProject(stored, loaded, u) ==
  LET new == Toggled(loaded, u)
      count == IF new.likesCount # loaded.likesCount
                 THEN new.likesCount ELSE stored.likesCount
  IN IF Includes(loaded.likes, u)
       THEN IF stored.v # loaded.v
              THEN [ok |-> FALSE, doc |-> stored]
              ELSE [ok |-> TRUE,
                    doc |-> [stored EXCEPT !.likes = new.likes,
                                           !.likesCount = count, !.v = @ + 1]]
       ELSE [ok |-> TRUE,
             doc |-> [stored EXCEPT !.likes = Append(@, u),
                                    !.likesCount = count, !.v = @ + 1]]

LikeResponse(loaded, u) ==
  [status |-> 200, message |-> "ok",
   body |-> [liked |-> ~Includes(loaded.likes, u),
             likesCount |-> Toggled(loaded, u).likesCount]]

\* POST /projects/:id/like, run without interleaving
ToggleLike(u, p) ==
  /\ req' = Request("toggleLike", u, p, NoBody)
  /\ removed' = <<>>
  /\ IF p \notin DOMAIN projects
       THEN /\ res' = Response(404, "Project not found")
            /\ UNCHANGED projects
       ELSE /\ projects[p].v < MaxVersion
            /\ projects' = [projects EXCEPT ![p] = SaveProject(@, @, u).doc]
            /\ res' = LikeResponse(projects[p], u)
  /\ UNCHANGED <<users, comments, nextProject, nextComment, inflight>>

\* POST /projects/:id/like up to the first await: Project.findById
LikeFind(u, p) ==
  /\ inflight[u].pc = "idle"
  /\ req' = Request("toggleLike", u, p, NoBody)
  /\ removed' = <<>>
  /\ IF p \notin DOMAIN projects
       THEN /\ res' = Response(404, "Project not found")
            /\ UNCHANGED inflight
       ELSE /\ projects[p].v < MaxVersion
            /\ inflight' = [inflight EXCEPT ![u] =
                              [pc |-> "loaded", id |-> p, doc |-> projects[p]]]
            /\ UNCHANGED res
  /\ UNCHANGED <<users, projects, comments, nextProject, nextComment>>

\* POST /projects/:id/like from the toggle of the loaded copy to the response
LikeSave(u) ==
  /\ inflight[u].pc = "loaded"
  /\ LET p == inflight[u].id
         result == SaveProject(projects[p], inflight[u].doc, u)
     IN /\ req' = Request("toggleLike", u, p, NoBody)
        /\ IF ~result.ok
             THEN /\ res' = Response(500, "Server error")
                  /\ UNCHANGED projects
             ELSE /\ projects' = [projects EXCEPT ![p] = result.doc]
                  /\ res' = LikeResponse(inflight[u].doc, u)
  /\ inflight' = [inflight EXCEPT ![u] = Idle]
  /\ removed' = <<>>
  /\ UNCHANGED <<users, comments, nextProject, nextComment>>

(* ---------------- Comment routes ---------- *)
\* new Comment({content, author, project, parentComment}); replies is the
\* array the routes $push to and $pull from, empty on a new document
NewComment(u, p, parent) ==
  [author |-> u, project |-> p, parentComment |-> parent, replies |-> <<>>]

\* parentCommentId supplied and Comment.findById(parentCommentId) finds nothing
ParentMissingMutantNoCheck(parent) == FALSE

ParentMissing(parent) == parent # NULL /\ parent \notin DOMAIN comments

\* Comment.findByIdAndUpdate(id, {$push / $pull: {replies: r}}): no-op when absent
PushReply(cs, id, r) ==
  IF id \in DOMAIN cs THEN [cs EXCEPT ![id].replies = Append(@, r)] ELSE cs

PullReply(cs, id, r) ==
  IF id \in DOMAIN cs THEN [cs EXCEPT ![id].replies = Without(@, r)] ELSE cs

\* Project.findByIdAndUpdate(id, {$inc: {commentsCount: d}}): no-op when absent
IncCommentsCount(ps, id, d) ==
  IF id \in DOMAIN ps THEN [ps EXCEPT ![id].commentsCount = @ + d] ELSE ps

\* Comments matching { parentComment: id } in collection cs
RepliesTo(cs, id) == {c \in DOMAIN cs : cs[c].parentComment = id}

\* POST /comments
CreateComment(u, p, parent) ==
  /\ req' = Request("createComment", u, p, [parentCommentId |-> parent])
  /\ removed' = <<>>
  /\ IF p \notin DOMAIN projects
       THEN /\ res' = Response(404, "Project not found")
            /\ UNCHANGED <<projects, comments, nextComment>>
       ELSE IF ParentMissing(parent)
         THEN /\ res' = Response(404, "Parent comment not found")
              /\ UNCHANGED <<projects, comments, nextComment>>
         ELSE /\ nextComment <= MaxComments
              /\ LET id == nextComment
                     saved == (id :> NewComment(u, p, parent)) @@ comments
                 IN comments' = IF parent # NULL
                                  THEN PushReply(saved, parent, id)
                                  ELSE saved
              /\ projects' = IncCommentsCount(projects, p, 1)
              /\ nextComment' = nextComment + 1
              /\ res' = Response(201, "created")
  /\ UNCHANGED <<users, nextProject, inflight>>

\* DELETE /comments/:id
DeleteComment(u, c) ==
  /\ req' = Request("deleteComment", u, c, NoBody)
  /\ IF c \notin DOMAIN comments
       THEN /\ res' = Response(404, "Comment not found")
            /\ removed' = <<>>
            /\ UNCHANGED <<projects, comments>>
       ELSE IF comments[c].author # u
         THEN /\ res' = Response(403, "Not authorized")
              /\ removed' = <<>>
              /\ UNCHANGED <<projects, comments>>
         ELSE LET comment == comments[c]
                  \* Comment.deleteMany({ parentComment: c })
                  cs1 == Restrict(comments, DOMAIN comments \ RepliesTo(comments, c))
                  \* $pull from the parent's replies when c is a reply
                  cs2 == IF comment.parentComment # NULL
                           THEN PullReply(cs1, comment.parentComment, c)
                           ELSE cs1
                  \* countDocuments({ parentComment: c }) + 1
                  totalCommentsDeleted == Cardinality(RepliesTo(cs2, c)) + 1
              IN /\ projects' = IncCommentsCount(projects, comment.project,
                                                 -totalCommentsDeleted)
                 \* Comment.findByIdAndDelete(c)
                 /\ comments' = Restrict(cs2, DOMAIN cs2 \ {c})
                 /\ removed' = Restrict(comments, RepliesTo(comments, c) \cup {c})
                 /\ res' = Response(200, "Comment deleted successfully")
  /\ UNCHANGED <<users, nextProject, nextComment, inflight>>

(* ---------------- profile route ---------- *)
\* Request bodies of PUT /users/profile: each field present or absent
ProfileBodies ==
  {[username |-> n] : n \in Names}
    \cup {[bio |-> b] : b \in Bios}
    \cup {[username |-> n, bio |-> b] : n \in Names, b \in Bios}

\* username && username !== req.user.username
UsernameChanging(u, body) ==
  "username" \in DOMAIN body /\ body.username # users[u].username

\* User.findOne({ username })
UsernameTakenMutantNoLookup(name) == FALSE

UsernameTaken(name) == \E o \in Users : users[o].username = name

\* PUT /users/profile
UpdateProfile(u, body) ==
  /\ req' = Request("updateProfile", u, NULL, body)
  /\ removed' = <<>>
  /\ IF UsernameChanging(u, body) /\ UsernameTaken(body.username)
       THEN /\ res' = Response(400, "Username already taken")
            /\ UNCHANGED users
       ELSE /\ users' = [users EXCEPT ![u] = ApplyUpdate(@, body)]
            /\ res' = Response(200, "updated")
  /\ UNCHANGED <<projects, comments, nextProject, nextComment, inflight>>

(* ---------------- specifications --------- *)
\* Project and comment create / delete requests, one at a time
Next ==
  \/ \E u \in Users, t \in Titles : CreateProject(u, t)
  \/ \E u \in Users, p \in ProjectIds : DeleteProject(u, p)
  \/ \E u \in Users, p \in ProjectIds, c \in CommentIds \cup {NULL} : CreateComment(u, p, c)
  \/ \E u \in Users, c \in CommentIds : DeleteComment(u, c)

Spec == Init /\ [][Next]_vars

\* Comment create / delete requests only, one at a time
NextComments ==
  \/ \E u \in Users, t \in Titles : CreateProject(u, t)
  \/ \E u \in Users, p \in ProjectIds, c \in CommentIds \cup {NULL} : CreateComment(u, p, c)
  \/ \E u \in Users, c \in CommentIds : DeleteComment(u, c)

SpecComments == Init /\ [][NextComments]_vars

\* Like-toggle requests only, one at a time
NextLikes ==
  \/ \E u \in Users, t \in Titles : CreateProject(u, t)
  \/ \E u \in Users, p \in ProjectIds : ToggleLike(u, p)

SpecLikes == Init /\ [][NextLikes]_vars

\* Like-toggle requests interleaving at their await points
NextConc ==
  \/ \E u \in Users, t \in Titles : CreateProject(u, t)
  \/ \E u \in Users, p \in ProjectIds : LikeFind(u, p)
  \/ \E u \in Users : LikeSave(u)

SpecConc == Init /\ [][NextConc]_vars

\* Project create / update requests, one at a time
NextUpdate ==
  \/ \E u \in Users, t \in Titles : CreateProject(u, t)
  \/ \E u \in Users, p \in ProjectIds, b \in UpdateBodies : UpdateProject(u, p, b)

SpecUpdate == Init /\ [][NextUpdate]_vars

\* Profile updates only, one at a time
NextProfile == \E u \in Users, b \in ProfileBodies : UpdateProfile(u, b)

SpecProfile == Init /\ [][NextProfile]_vars

(* ---------------- properties -------------- *)
AllIdle == \A u \in Users : inflight[u].pc = "idle"

NoDuplicates(s) == \A i, j \in 1..Len(s) : s[i] = s[j] => i = j

\* C1: after each create-comment or delete-comment request, every project's
\* commentsCount equals the number of stored Comments referencing the project,
\* top-level comments and replies alike.
CommentsCountMatches ==
  \A p \in DOMAIN projects :
    projects[p].commentsCount =
      Cardinality({c \in DOMAIN comments : comments[c].project = p})

\* C2: deleting a top-level comment that has N replies removes exactly N+1
\* Comments, leaves none of its replies stored, and decrements the owning
\* project's commentsCount by exactly N+1.
DeleteCommentRemovesAndDecrements ==
  [][(req'.op = "deleteComment" /\ res'.status = 200
        /\ comments[req'.id].parentComment = NULL)
      => LET c == req'.id
             p == comments[c].project
             n == Cardinality(RepliesTo(comments, c))
         IN /\ Cardinality(DOMAIN comments') = Cardinality(DOMAIN comments) - (n + 1)
            /\ c \notin DOMAIN comments'
            /\ RepliesTo(comments', c) = {}
            /\ projects'[p].commentsCount = projects[p].commentsCount - (n + 1)]_vars

\* C3: after any sequence of like-toggle requests run one at a time, each
\* project's likesCount equals the size of its likes list and no user occurs
\* in it twice; a toggle by a user not in the list adds the user and raises
\* the count by one, a toggle by a user in the list removes the user and
\* lowers it by one, so a like followed by a second toggle by the same user
\* leaves the user unliked with likesCount back at its value before the like.
LikeToggleConsistent ==
  /\ [](\A p \in DOMAIN projects :
          /\ projects[p].likesCount = Len(projects[p].likes)
          /\ NoDuplicates(projects[p].likes))
  /\ [][(req'.op = "toggleLike" /\ res'.status = 200)
         => LET p == req'.id
                u == req'.user
            IN /\ res'.body.liked = ~Includes(projects[p].likes, u)
               /\ res'.body.liked = Includes(projects'[p].likes, u)
               /\ res'.body.likesCount = projects'[p].likesCount
               /\ projects'[p].likesCount =
                    projects[p].likesCount + (IF res'.body.liked THEN 1 ELSE -1)
               /\ (req.op = "toggleLike" /\ req.id = p /\ req.user = u
                     /\ res.status = 200 /\ res.body.liked)
                    => /\ ~res'.body.liked
                       /\ projects'[p].likesCount = res.body.likesCount - 1]_vars

\* C3 witness: a user has liked and then unliked a project that another user
\* still likes.
LikeThenUnlikeDone ==
  /\ req.op = "toggleLike" /\ res.status = 200 /\ ~res.body.liked
  /\ projects[req.id].v >= 3
  /\ projects[req.id].likesCount = 1
  /\ ~Includes(projects[req.id].likes, req.user)

\* C4: every top-level comment's replies list contains exactly the stored
\* Comments whose parentComment is that comment, and no identifier of a
\* Comment that no longer exists.
RepliesMatchChildren ==
  \A c \in DOMAIN comments :
    comments[c].parentComment = NULL
      => Range(comments[c].replies) = RepliesTo(comments, c)

\* C5: once interleaved like-toggle requests by different users on the same
\* project have all completed, the stored likesCount equals the size of the
\* stored likes list.
ConcurrentLikesCounted ==
  AllIdle => \A p \in DOMAIN projects :
               projects[p].likesCount = Len(projects[p].likes)

\* C6: the comment tree has at most two levels: every stored Comment with a
\* parent references a parent that is itself top-level.
TwoLevelTree ==
  \A c \in DOMAIN comments :
    (comments[c].parentComment # NULL /\ comments[c].parentComment \in DOMAIN comments)
      => comments[comments[c].parentComment].parentComment = NULL

\* C7: deleting a project that has M Comments, top-level and replies, removes
\* all M of them and the project: afterwards no stored Comment references it.
DeleteProjectCascades ==
  [][(req'.op = "deleteProject" /\ res'.status = 200)
      => LET p == req'.id
             attached == {c \in DOMAIN comments : comments[c].project = p}
         IN /\ p \notin DOMAIN projects'
            /\ \A c \in DOMAIN comments' : comments'[c].project # p
            /\ Cardinality(DOMAIN comments') =
                 Cardinality(DOMAIN comments) - Cardinality(attached)
            /\ DOMAIN removed' = attached]_vars

\* C7 witness: a project delete has removed a top-level comment and a reply.
ProjectWithRepliesDeleted ==
  /\ req.op = "deleteProject" /\ res.status = 200
  /\ \E c, r \in DOMAIN removed :
       removed[c].parentComment = NULL /\ removed[r].parentComment = c

\* C8: a project update by the author leaves the project's author, likes,
\* likesCount and commentsCount unchanged.
UpdateKeepsDerivedState ==
  [][(req'.op = "updateProject" /\ res'.status = 200)
      => LET p == req'.id
         IN /\ projects'[p].author = projects[p].author
            /\ projects'[p].likes = projects[p].likes
            /\ projects'[p].likesCount = projects[p].likesCount
            /\ projects'[p].commentsCount = projects[p].commentsCount]_vars

\* C9: a create-comment request naming a parent comment that matches no
\* stored Comment fails with NotFound and creates no Comment, modifies no
\* replies list and increments no commentsCount.
MissingParentRejected ==
  [][(req'.op = "createComment" /\ req'.body.parentCommentId # NULL
        /\ req'.body.parentCommentId \notin DOMAIN comments)
      => /\ res'.status = 404
         /\ comments' = comments
         /\ projects' = projects
         /\ nextComment' = nextComment]_vars

\* C9 witness: a reply to a missing parent on an existing project was refused
\* while other comments were stored.
MissingParentRefused ==
  /\ req.op = "createComment" /\ res.status = 404
  /\ res.message = "Parent comment not found"
  /\ req.id \in DOMAIN projects
  /\ req.body.parentCommentId \notin DOMAIN comments
  /\ comments # <<>>

\* C10: a profile update changing the username to one held by another account
\* is refused and leaves the caller's profile unchanged; no two users ever
\* share a username; an update naming the caller's own username succeeds.
UsernameConflictRejected ==
  /\ [](\A a, b \in Users : users[a].username = users[b].username => a = b)
  /\ [][(req'.op = "updateProfile" /\ "username" \in DOMAIN req'.body)
         => LET u == req'.user
                name == req'.body.username
            IN /\ (\E o \in Users \ {u} : users[o].username = name)
                    => (res'.status = 400 /\ users' = users)
               /\ (users[u].username = name)
                    => (res'.status = 200 /\ users'[u].username = name)]_vars

\* C10 witness: an update to another account's username, with a new bio, was
\* refused after the caller had already changed its profile.
UsernameConflictRefused ==
  /\ req.op = "updateProfile" /\ res.status = 400
  /\ "username" \in DOMAIN req.body /\ "bio" \in DOMAIN req.body
  /\ \E o \in Users \ {req.user} : users[o].username = req.body.username
  /\ users[req.user].username = "carol"
  /\ users[req.user].bio # req.body.bio

====
